---- MODULE Spec2Model ----
(***************************************************************************)
(* A model of QuickCL (qcl.hpp, qcl_module.hpp): the per-device compilation *)
(* cache of qcl::device_context (register_source_code / get_kernel, also    *)
(* called by two threads and through module entry points), its command      *)
(* queues and create_buffer, the launch size computation of                 *)
(* enqueue_ndrange_kernel, the positional argument counter                  *)
(* qcl::kernel_argument_list and qcl::kernel_call.                          *)
(***************************************************************************)
EXTENDS FiniteSets, Integers, Sequences, TLC

VARIABLES
  program_cache,   \* device_context::_program_cache : program name -> cl::Program
  kernels,         \* device_context::_kernels : scoped name -> kernel_ptr
  num_compiled,    \* history: successful compiler runs per program name
  last,            \* the last call on the device context, and how it ended
  num_arguments,   \* kernel_argument_list::_num_arguments
  set_args,        \* history: the setArg calls since construction / reset
  num_resets,      \* history: calls of reset made on the binder directly
  queues,          \* device_context::_queues
  ndebug,          \* the build: TRUE when assert() is compiled out (NDEBUG)
  launch,          \* an enqueue_ndrange_kernel call: its arguments, then its effect
  kernel_args,     \* the argument values the cl::Kernel object holds, by index
  kernel_call,     \* the last operation on a kernel_call object, and how it ended
  buffer,          \* a create_buffer call: its arguments, then its effect
  constructed,     \* which device_context constructor made the object
  queue_op,        \* the last command-queue operation, and how it ended
  threads,         \* two threads inside register_source_code, and their overlap
  requests,        \* the registrations a program is about to make, in order
  array_write,     \* a device_array write call: its arguments, then its effect
  calls            \* two kernel_call objects made for one kernel

vars == <<program_cache, kernels, num_compiled, last,
          num_arguments, set_args, num_resets, queues, ndebug, launch,
          kernel_args, kernel_call, buffer, constructed, queue_op, threads,
          requests, array_write, calls>>

cacheVars == <<program_cache, kernels, num_compiled, last>>
binderVars == <<num_arguments, set_args, num_resets>>
launchVars == <<queues, ndebug, launch>>
callVars == <<kernel_args, kernel_call>>
restVars == <<requests, array_write, calls>>
otherVars == <<buffer, constructed, queue_op, threads, restVars>>

(***************************************************************************)
(* Inputs of the cache operations.                                         *)
(***************************************************************************)
\* longest kernel-name list passed to one register_source_code call
MaxNames == 2

ProgramNames == {"P1", "P2"}
\* source texts: "srcA" defines k1 and k2, "srcB" defines k1 only,
\* "bad" does not compile; a fourth text, "srcC", defines k1k2 only
Sources == {"srcA", "srcB", "bad"}
Scopes == {"", "S"}
KernelNames == {"k1", "k2"}
\* names asked of get_kernel
LookupNames == {"k1", "S::k1", "k3"}

RECURSIVE SeqsUpTo(_, _)
SeqsUpTo(S, n) ==
  IF n = 0 THEN {<<>>}
  ELSE LET shorter == SeqsUpTo(S, n - 1)
       IN shorter \cup {Append(q, x) : q \in {r \in shorter : Len(r) = n - 1}, x \in S}

KernelNameLists == SeqsUpTo(KernelNames, MaxNames)

(***************************************************************************)
(* The OpenCL driver, as far as the cache sees it.                         *)
(***************************************************************************)
\* a module template my_module<T> with two entry points, and the template
\* arguments it is instantiated with
TemplateArgs == {"int", "float"}
EntryPoints == {"my_kernel_a", "my_kernel_b"}

\* QCL_MAKE_MODULE: return typeid(_qcl_this_type).name();
_qcl_get_module_name(T) == "my_module<" \o T \o ">"

\* QCL_MAKE_SOURCE: the include guard around the code; QCL_IMPORT_TYPE(T)
\* puts the definition of T in front of the raw kernel code
_qcl_source(T) ==
  "#ifndef QCL_MODULE_" \o _qcl_get_module_name(T) \o "_CL"
    \o "\n#define QCL_MODULE_" \o _qcl_get_module_name(T) \o "_CL"
    \o "\n" \o "\n#define T " \o T \o "\n" \o "__kernel ..."
    \o "\n#endif\n"

ModuleSources == {_qcl_source(T) : T \in TemplateArgs}

\* cl::Program::build returns CL_SUCCESS
BuildSucceeds(source) == source \in {"srcA", "srcB", "srcC"} \cup ModuleSources

\* cl::Kernel(prog, name, &err) sets err = CL_SUCCESS: name is a __kernel
\* function of the program
CreateKernelSucceeds(prog, name) ==
  \/ prog.source = "srcA" /\ name \in {"k1", "k2"}
  \/ prog.source = "srcB" /\ name \in {"k1"}
  \/ prog.source = "srcC" /\ name \in {"k1k2"}
  \/ prog.source \in ModuleSources /\ name \in EntryPoints

\* the null kernel_ptr, and the shape of every kernel_ptr of the model
NullKernel ==
  [null |-> TRUE, function_name |-> "", program |-> [source |-> ""],
   program_name |-> "", scope |-> ""]

IsNull(kernel) == kernel.null

(***************************************************************************)
(* std::map helpers                                                        *)
(***************************************************************************)
Put(f, k, v) == [x \in (DOMAIN f) \cup {k} |-> IF x = k THEN v ELSE f[x]]
EmptyMap == [x \in {} |-> 0]

(***************************************************************************)
(* device_context::register_source_code (four-argument overload)           *)
(***************************************************************************)
\* std::string scope_prefix = ""; if(scope.size() > 0) scope_prefix = scope + "::";
scope_prefix(scope) == IF Len(scope) > 0 THEN scope \o "::" ELSE ""

\* variant: the lookup leaves out the scope prefix
IsNewKernelUnscoped(kmap, scope, kernel_name) == kernel_name \notin DOMAIN kmap

\* _kernels.find(scope_prefix+kernel_name) == _kernels.end()
IsNewKernel(kmap, scope, kernel_name) ==
  (scope_prefix(scope) \o kernel_name) \notin DOMAIN kmap

\* the loop filling new_kernels: the requested names whose scoped name is not
\* a key of _kernels, in the order and multiplicity of kernel_names
new_kernels(kmap, kernel_names, scope) ==
  SelectSeq(kernel_names, LAMBDA n : IsNewKernel(kmap, scope, n))

\* variant: the program cache is never consulted
NotCachedAlways(cache, program_name) == TRUE

\* cached_program == _program_cache.end()
NotCached(cache, program_name) == program_name \notin DOMAIN cache

\* variant: the result of cl::Program::build is not checked
compile_source_unchecked(source) == [ok |-> TRUE, program |-> [source |-> source]]

\* compile_source: the program built from the source, or the exception
compile_source(source) ==
  IF BuildSucceeds(source)
  THEN [ok |-> TRUE, program |-> [source |-> source]]
  ELSE [ok |-> FALSE, program |-> [source |-> source]]

(***************************************************************************)
(* device_context::load_kernels                                            *)
(***************************************************************************)
\* variant: the separator is appended for the empty scope too
load_prefix_always(scope) == scope \o "::"

\* std::string prefix=scope; if(scope.size() > 0) prefix += "::";
load_prefix(scope) == IF Len(scope) > 0 THEN scope \o "::" ELSE scope

\* variant: the key leaves out the scope
LoadKeyUnscoped(scope, kernel_name) == kernel_name

\* the key of _kernels[prefix+kernel_names[i]]
LoadKey(scope, kernel_name) == load_prefix(scope) \o kernel_name

\* variant: the created kernel object is not stored
StoreKernelNowhere(kmap, key, kernel) == kmap

\* _kernels[prefix+kernel_names[i]] = kernel : the new object takes the place
\* of whatever the key held
StoreKernel(kmap, key, kernel) == Put(kmap, key, kernel)

\* The loop of load_kernels from index i on. st carries _kernels, the keys
\* stored by this call in order, and whether check_cl_error threw (the loop
\* stops at the first failure).
RECURSIVE load_kernels(_, _, _, _, _, _)
load_kernels(st, prog, program_name, kernel_names, scope, i) ==
  IF i > Len(kernel_names) THEN st
  ELSE IF ~CreateKernelSucceeds(prog, kernel_names[i])
  THEN [st EXCEPT !.threw = TRUE]
  ELSE
    LET key == LoadKey(scope, kernel_names[i])
        kernel == [null |-> FALSE,
                   function_name |-> kernel_names[i],
                   program |-> prog,
                   program_name |-> program_name,
                   scope |-> scope]
    IN load_kernels([kernels |-> StoreKernel(st.kernels, key, kernel),
                     created |-> Append(st.created, key),
                     threw |-> FALSE],
                    prog, program_name, kernel_names, scope, i + 1)

\* the scoped names a call lists, as section 4.1 of the documentation and the
\* comment of register_source_code define them
ScopedName(scope, name) == IF scope = "" THEN name ELSE scope \o "::" \o name

Listed(kernel_names) == {kernel_names[i] : i \in 1..Len(kernel_names)}

NoCall ==
  [op |-> "none", source |-> "", listed |-> {}, program_name |-> "", scope |-> "",
   kernel_name |-> "", outcome |-> "ok", compiled |-> FALSE,
   created |-> <<>>, result |-> NullKernel]

\* the call on a device context whose maps are cache and kmap and whose
\* compile counts are counts: the maps and counts it leaves, and its record
register_source_code_on(cache, kmap, counts, source_code, kernel_names, program_name, scope) ==
  LET new == new_kernels(kmap, kernel_names, scope)
      this == [NoCall EXCEPT !.op = "register_source_code",
                             !.source = source_code,
                             !.listed = Listed(kernel_names),
                             !.program_name = program_name,
                             !.scope = scope]
      compile == Len(new) > 0 /\ NotCached(cache, program_name)
      built == compile_source(source_code)
  IN
  IF Len(new) = 0
     THEN \* nothing new: the body of if(new_kernels.size() > 0) is skipped
          [program_cache |-> cache, kernels |-> kmap, num_compiled |-> counts,
           last |-> this]
     ELSE IF compile /\ ~built.ok
     THEN \* compile_source throws before _program_cache is assigned
          [program_cache |-> cache, kernels |-> kmap, num_compiled |-> counts,
           last |-> [this EXCEPT !.outcome = "CompileError", !.compiled = TRUE]]
     ELSE
       LET cache2 == IF compile
                     THEN Put(cache, program_name, built.program)
                     ELSE cache
           st == load_kernels([kernels |-> kmap, created |-> <<>>,
                               threw |-> FALSE],
                              cache2[program_name], program_name, new, scope, 1)
       IN
       [program_cache |-> cache2,
        kernels |-> st.kernels,
        num_compiled |-> IF compile
                         THEN [counts EXCEPT ![program_name] = @ + 1]
                         ELSE counts,
        last |-> [this EXCEPT !.outcome = IF st.threw THEN "KernelError" ELSE "ok",
                              !.compiled = compile,
                              !.created = st.created]]

register_source_code(source_code, kernel_names, program_name, scope) ==
  \E r \in {register_source_code_on(program_cache, kernels, num_compiled,
                                     source_code, kernel_names, program_name,
                                     scope)} :
    /\ program_cache' = r.program_cache
    /\ kernels' = r.kernels
    /\ num_compiled' = r.num_compiled
    /\ last' = r.last

Register ==
  \E source_code \in Sources, kernel_names \in KernelNameLists,
     program_name \in ProgramNames, scope \in Scopes :
    /\ register_source_code(source_code, kernel_names, program_name, scope)
    /\ UNCHANGED <<binderVars, launchVars, callVars, otherVars>>

(***************************************************************************)
(* device_context::get_kernel                                              *)
(***************************************************************************)
\* kernel_ptr kernel = _kernels[kernel_name]; std::map::operator[] inserts a
\* value-initialised (null) kernel_ptr when the key is missing
IndexKernels(kmap, kernel_name) ==
  IF kernel_name \in DOMAIN kmap THEN kmap ELSE Put(kmap, kernel_name, NullKernel)

\* variant: the handle is returned without the null test
get_kernel_result_unchecked(kmap, kernel_name) ==
  [outcome |-> "ok", result |-> IndexKernels(kmap, kernel_name)[kernel_name]]

\* if(!kernel) throw std::runtime_error(...); return kernel;
get_kernel_result(kmap, kernel_name) ==
  LET kernel == IndexKernels(kmap, kernel_name)[kernel_name]
  IN IF IsNull(kernel)
     THEN [outcome |-> "NotFound", result |-> NullKernel]
     ELSE [outcome |-> "ok", result |-> kernel]

get_kernel(kernel_name) ==
  LET r == get_kernel_result(kernels, kernel_name)
  IN /\ kernels' = IndexKernels(kernels, kernel_name)
     /\ last' = [NoCall EXCEPT !.op = "get_kernel", !.kernel_name = kernel_name,
                               !.outcome = r.outcome, !.result = r.result]
     /\ UNCHANGED <<program_cache, num_compiled>>

GetKernel ==
  \E kernel_name \in LookupNames :
    /\ get_kernel(kernel_name)
    /\ UNCHANGED <<binderVars, launchVars, callVars, otherVars>>

NoLaunch ==
  [pc |-> "none", minimum |-> <<>>, local |-> <<>>, queue |-> 0,
   global |-> <<>>, local_passed |-> <<>>, err |-> "CL_SUCCESS"]

(***************************************************************************)
(* The parts of the state a specification does not use stay at these values *)
(***************************************************************************)
\* parameters of the __kernel function behind the cl::Kernel object
KernelNumArgs == 2

\* a cl::Kernel just created: no argument has been set
UnsetArgs == [i \in 1..KernelNumArgs |-> "unset"]

NoKernelCall ==
  [op |-> "none", arguments |-> <<>>, index_before |-> 0, bound |-> <<>>,
   enqueues |-> 0, launched |-> <<>>, returned |-> TRUE, result |-> "none"]

NoBuffer ==
  [pc |-> "none", overload |-> "", device_type |-> "", flags |-> {},
   initial_data |-> FALSE, requested |-> {}, host_ptr |-> FALSE, err |-> "CL_SUCCESS"]

NoQueueOp == [op |-> "none", outcome |-> "returned", id |-> 0, before |-> 0]

NoThread ==
  [pc |-> "idle", source |-> "", kernel_names |-> <<>>, program_name |-> "",
   scope |-> "", new |-> <<>>, compiled |-> FALSE, created |-> <<>>,
   outcome |-> "ok"]

NoThreads == [t1 |-> NoThread, t2 |-> NoThread, overlapped |-> FALSE]

NoRequests == [list |-> <<>>, done |-> 0, results |-> <<>>]

NoArrayWrite ==
  [pc |-> "none", overload |-> "", num_elements |-> 0, data_size |-> 0,
   begin |-> 0, end |-> 0, status |-> "CL_SUCCESS", host_read |-> 0,
   outcome |-> "none"]

\* a kernel_call object before its first argument: _args._num_arguments is
\* 0; bound is history, the values set through this object, by index
NoCallObject == [num_arguments |-> 0, bound |-> UnsetArgs]

NoCalls ==
  [a |-> NoCallObject, b |-> NoCallObject,
   last |-> [object |-> "none", op |-> "none", launched |-> <<>>,
             expected |-> <<>>, result |-> "none"]]

RestIdle ==
  /\ requests = NoRequests
  /\ array_write = NoArrayWrite
  /\ calls = NoCalls

OthersIdle ==
  /\ RestIdle
  /\ kernel_args = UnsetArgs
  /\ kernel_call = NoKernelCall
  /\ buffer = NoBuffer
  /\ constructed = "device"
  /\ queue_op = NoQueueOp
  /\ threads = NoThreads

(***************************************************************************)
(* The device context after construction, and its cache operations          *)
(***************************************************************************)
Init ==
  /\ program_cache = EmptyMap
  /\ kernels = EmptyMap
  /\ num_compiled = [p \in ProgramNames |-> 0]
  /\ last = NoCall
  /\ num_arguments = 0
  /\ set_args = <<>>
  /\ num_resets = 0
  /\ queues = <<"ok">>
  /\ ndebug = FALSE
  /\ launch = NoLaunch
  /\ OthersIdle

Next == Register \/ GetKernel

Spec == Init /\ [][Next]_vars

(***************************************************************************)
(* Properties of the compilation cache                                     *)
(***************************************************************************)
HasKernel(kmap, key) == key \in DOMAIN kmap /\ ~IsNull(kmap[key])

Occurrences(seq, x) == Cardinality({i \in 1..Len(seq) : seq[i] = x})

AllScopedNames == {ScopedName(s, n) : s \in Scopes, n \in KernelNames}

\* C1: a program name is compiled successfully at most once per context; a
\* registration whose program name is already cached does not run the
\* compiler and builds every kernel it stores from the cached program.
C1_CompiledAtMostOnce ==
  [][/\ \A p \in ProgramNames : num_compiled'[p] <= 1
     /\ (last'.op = "register_source_code"
         /\ last'.program_name \in DOMAIN program_cache)
        => /\ ~last'.compiled
           /\ num_compiled' = num_compiled
           /\ program_cache' = program_cache
           /\ \A i \in 1..Len(last'.created) :
                kernels'[last'.created[i]].program
                  = program_cache[last'.program_name]]_vars

\* a registration that passed a source differing from the cached one stored
\* a kernel built from the cached program without compiling
C1_Witness ==
  /\ last.op = "register_source_code"
  /\ last.outcome = "ok"
  /\ ~last.compiled
  /\ Len(last.created) > 0
  /\ num_compiled[last.program_name] = 1
  /\ program_cache[last.program_name].source # last.source

\* C2: after a register_source_code call listing name n under scope s has
\* returned normally, get_kernel on the scoped name of (s, n) returns a
\* non-empty handle (also when get_kernel failed for it earlier).
C2_RegisteredKernelIsFound ==
  (last.op = "register_source_code" /\ last.outcome = "ok")
    => \A n \in last.listed :
         get_kernel_result(kernels, ScopedName(last.scope, n)).outcome = "ok"

\* C3: a registration all of whose scoped names are keys of the kernel map
\* (or whose name list is empty) compiles nothing, creates no kernel and
\* leaves the program cache and the kernel map as they were.
C3_KnownNamesNoOp ==
  [][(last'.op = "register_source_code"
      /\ \A n \in last'.listed : ScopedName(last'.scope, n) \in DOMAIN kernels)
     => /\ program_cache' = program_cache
        /\ kernels' = kernels
        /\ num_compiled' = num_compiled
        /\ ~last'.compiled
        /\ last'.created = <<>>
        /\ last'.outcome = "ok"]_vars

\* a no-op registration of known names that passed a program name never
\* cached and a source that would not even compile
C3_Witness ==
  /\ last.op = "register_source_code"
  /\ last.listed # {}
  /\ \A n \in last.listed : HasKernel(kernels, ScopedName(last.scope, n))
  /\ last.program_name \notin DOMAIN program_cache
  /\ last.source = "bad"
  /\ last.created = <<>>
  /\ last.outcome = "ok"

\* C4: get_kernel either returns a non-empty handle, the one stored under the
\* requested name by a registration of that name, or raises NotFound; for a
\* name no registration can have listed, and before any program was
\* compiled, it raises NotFound.
C4_LookupNeverReturnsNull ==
  last.op = "get_kernel"
    => /\ last.outcome \in {"ok", "NotFound"}
       /\ last.outcome = "ok"
            => /\ ~IsNull(last.result)
               /\ last.result = kernels[last.kernel_name]
               /\ ScopedName(last.result.scope, last.result.function_name)
                    = last.kernel_name
       /\ last.kernel_name \notin AllScopedNames => last.outcome = "NotFound"
       /\ DOMAIN program_cache = {} => last.outcome = "NotFound"

\* a lookup of a name that was never registered failed while other kernels
\* are registered
C4_Witness ==
  /\ last.op = "get_kernel"
  /\ last.kernel_name = "k3"
  /\ last.outcome = "NotFound"
  /\ HasKernel(kernels, "k1")

C6_TwoScopesTwoHandles ==
  [][\A n \in KernelNames, s1 \in Scopes, s2 \in Scopes :
       (/\ s1 # s2
        /\ last'.op = "register_source_code"
        /\ last'.outcome = "ok"
        /\ last'.scope = s2
        /\ n \in last'.listed
        /\ HasKernel(kernels, ScopedName(s1, n))
        /\ kernels[ScopedName(s1, n)].program.source = last'.source)
       => /\ ScopedName(s1, n) # ScopedName(s2, n)
          /\ kernels'[ScopedName(s1, n)] = kernels[ScopedName(s1, n)]
          /\ HasKernel(kernels', ScopedName(s2, n))]_vars

\* C7: no register_source_code call stores a kernel object under a scoped
\* name that already holds one, nor two objects under one scoped name: at
\* most one handle is ever created and stored per scoped name.
C7_OneHandlePerName ==
  [][last'.op = "register_source_code"
     => \A key \in AllScopedNames :
          Occurrences(last'.created, key)
            + (IF HasKernel(kernels, key) THEN 1 ELSE 0) <= 1]_vars

\* C8: when the build of the source fails, the call ends with the compile
\* error and the program cache and the kernel map are what they were; the
\* program name is not cached and no new kernel is registered.
C8_CompileErrorLeavesCache ==
  [][/\ (last'.op = "register_source_code" /\ last'.compiled
         /\ ~BuildSucceeds(last'.source))
        => last'.outcome = "CompileError"
     /\ last'.outcome = "CompileError"
        => /\ last'.op = "register_source_code"
           /\ program_cache' = program_cache
           /\ kernels' = kernels
           /\ num_compiled' = num_compiled
           /\ last'.created = <<>>
           /\ last'.program_name \notin DOMAIN program_cache']_vars

\* a failed compilation for one program name while another program and its
\* kernels are registered
C8_Witness ==
  /\ last.op = "register_source_code"
  /\ last.outcome = "CompileError"
  /\ last.program_name = "P2"
  /\ "P1" \in DOMAIN program_cache
  /\ HasKernel(kernels, "k1")

(***************************************************************************)
(* The exceptions the cache operations end with                            *)
(***************************************************************************)
\* program.getBuildInfo(_device, CL_PROGRAM_BUILD_LOG, &log)
BuildLog(source) == "build log of " \o source

\* check_cl_error: throw qcl_error{sstr.str(), err}; the message is given as
\* the sequence of the parts streamed into it
thrown_by_check_cl_error(err, msg) ==
  [type |-> "qcl_error", opencl_error |-> err,
   what |-> <<"OpenCL error ", err, ": ", msg>>]

\* compile_source: throw std::runtime_error(err_msg);
thrown_by_compile_source(device_name, log) ==
  [type |-> "std::runtime_error", opencl_error |-> "none",
   what |-> <<device_name, ": Could not compile CL source: ", log>>]

\* get_kernel: throw std::runtime_error("Requested kernel could not be found!");
thrown_by_get_kernel ==
  [type |-> "std::runtime_error", opencl_error |-> "none",
   what |-> <<"Requested kernel could not be found!">>]

\* the exception that ended a call on the device context
exception_of(this) ==
  CASE this.outcome = "CompileError"
         -> thrown_by_compile_source("device", BuildLog(this.source))
    [] this.outcome = "KernelError"
         -> thrown_by_check_cl_error("CL_INVALID_KERNEL_NAME",
                                     "Could not create kernel object!")
    [] this.outcome = "NotFound" -> thrown_by_get_kernel
    [] OTHER -> [type |-> "none", opencl_error |-> "none", what |-> <<>>]

\* C19: a registration that fails in the build ends with an exception of
\* type qcl_error that carries the driver's error code, the type thrown for
\* a failed kernel creation, and the build log is part of its message.
C19_CompileErrorIsDriverError ==
  last.outcome = "CompileError"
    => /\ exception_of(last).type = "qcl_error"
       /\ exception_of(last).opencl_error # "none"
       /\ exception_of(last).type
            = thrown_by_check_cl_error("CL_INVALID_KERNEL_NAME",
                                       "Could not create kernel object!").type
       /\ \E i \in 1..Len(exception_of(last).what) :
            exception_of(last).what[i] = BuildLog(last.source)

\* C16: every step of the device context keeps each entry of the program
\* cache: a program name that is cached stays cached, with the same program.
C16_ProgramCacheOnlyGrows ==
  [][\A p \in DOMAIN program_cache :
       /\ p \in DOMAIN program_cache'
       /\ program_cache'[p] = program_cache[p]]_vars

\* with both program names cached, a registration passed another source for
\* a cached name and failed creating a kernel from the cached program
C16_Witness ==
  /\ last.op = "register_source_code"
  /\ last.outcome = "KernelError"
  /\ ~last.compiled
  /\ DOMAIN program_cache = ProgramNames
  /\ program_cache[last.program_name].source = "srcB"
  /\ last.source = "srcA"

\* C22: a get_kernel call, whether it returns a handle or ends with
\* NotFound, leaves the kernel map (its keys and handles) and the program
\* cache as they were.
C22_LookupIsReadOnly ==
  [][last'.op = "get_kernel"
       => /\ kernels' = kernels
          /\ program_cache' = program_cache]_vars

\* C23 as stated: a registration that fails creating a kernel object leaves
\* the kernel map and the program cache as they were before the call.
C23_KernelErrorLeavesCache ==
  [][last'.outcome = "KernelError"
       => /\ kernels' = kernels
          /\ program_cache' = program_cache]_vars

\* C23: a registration that fails creating a kernel object ends with the
\* error and keeps what it did before the failure: the program it compiled
\* or found is cached, the kernels it created before the failing name are
\* stored under their scoped names and nothing else is added, the entries
\* that existed keep their handles, and a listed name the program has no
\* kernel for is not registered.
C23_KernelErrorKeepsPartialWork ==
  [][last'.outcome = "KernelError"
       => /\ last'.op = "register_source_code"
          /\ last'.program_name \in DOMAIN program_cache'
          /\ \A p \in DOMAIN program_cache : program_cache'[p] = program_cache[p]
          /\ last'.compiled <=> last'.program_name \notin DOMAIN program_cache
          /\ \A key \in DOMAIN kernels : kernels'[key] = kernels[key]
          /\ DOMAIN kernels'
               = DOMAIN kernels
                   \cup {last'.created[i] : i \in 1..Len(last'.created)}
          /\ \A i \in 1..Len(last'.created) :
               /\ \E n \in last'.listed :
                    last'.created[i] = ScopedName(last'.scope, n)
               /\ kernels'[last'.created[i]].program
                    = program_cache'[last'.program_name]
          /\ \E n \in last'.listed :
               /\ ~CreateKernelSucceeds(program_cache'[last'.program_name], n)
               /\ ~HasKernel(kernels', ScopedName(last'.scope, n))]_vars

\* a registration of k1 and k2 from a source that defines k1 only compiled
\* the program, registered k1 and failed on k2
C23_Witness ==
  /\ last.op = "register_source_code"
  /\ last.outcome = "KernelError"
  /\ last.compiled
  /\ last.source = "srcB"
  /\ last.listed = {"k1", "k2"}
  /\ last.created = <<ScopedName(last.scope, "k1")>>
  /\ HasKernel(kernels, ScopedName(last.scope, "k1"))
  /\ program_cache[last.program_name].source = "srcB"

\* C25: every entry of the kernel map holds a non-empty handle, the handle
\* was created from the program the cache stores under the program
\* identifier of the registration that created it, and that program is
\* still in the cache.
C25_EntriesComeFromCachedPrograms ==
  \A key \in DOMAIN kernels :
    /\ ~IsNull(kernels[key])
    /\ kernels[key].program_name \in DOMAIN program_cache
    /\ kernels[key].program = program_cache[kernels[key].program_name]

(***************************************************************************)
(* device_context::enqueue_ndrange_kernel                                  *)
(***************************************************************************)
\* bits of std::size_t in the model
WordBits == 7
WordModulus == 2 ^ WordBits
MaxSizeT == WordModulus - 1

\* a cl::NDRange is the sequence of its sizes; its length is dimensions()
OneDimRanges == {<<x>> : x \in 1..MaxSizeT}
SampleSizes == {1, 16, 70, MaxSizeT}
SampledRanges ==
  {<<x>> : x \in SampleSizes}
    \cup {<<x, y>> : x \in SampleSizes, y \in SampleSizes}
    \cup {<<x, y, z>> : x \in {16, 70}, y \in {16, 70}, z \in {16, MaxSizeT}}
LaunchArguments ==
  {<<m, l>> : m \in OneDimRanges, l \in OneDimRanges}
    \cup {<<m, l>> : m \in SampledRanges, l \in SampledRanges}
QueueIds == {0, 1}
EnqueueStatus == {"CL_SUCCESS", "CL_INVALID_WORK_GROUP_SIZE"}

\* std::size_t multiple = (work_items/local_items)*local_items;
\* if(multiple != work_items) multiple += local_items;
multiple(work_items, local_items) ==
  LET m == ((work_items \div local_items) * local_items) % WordModulus
  IN IF m # work_items THEN (m + local_items) % WordModulus ELSE m

\* assert(multiple % local_items == 0 && multiple >= work_items);
multiple_asserted(work_items, local_items) ==
  /\ multiple(work_items, local_items) % local_items = 0
  /\ multiple(work_items, local_items) >= work_items

\* cl::NDRange global after the loop over minimum_num_work_items.dimensions()
global_range(minimum, local) ==
  [i \in 1..Len(minimum) |-> multiple(minimum[i], local[i])]

\* variant: the dimensions of the two ranges are not compared
dimensions_not_asserted(minimum, local) == TRUE

\* the two assertions at the head of the function
queue_asserted(queue_list, queue) == queue < Len(queue_list)
dimensions_asserted(minimum, local) == Len(minimum) = Len(local)

\* The call on a range pair and a queue id: the set of ways it can end, the
\* driver answering a submission with one of statuses. With assert() active
\* a failed assertion aborts the process; with NDEBUG an out-of-range queue
\* id (_queues[queue] past the end) and a minimum range of more dimensions
\* than the local range (local_items == 0, a division by zero) are undefined.
enqueue_ndrange_kernel(l, statuses) ==
  LET minimum == l.minimum
      local == l.local
      precondition == /\ queue_asserted(queues, l.queue)
                      /\ dimensions_asserted(minimum, local)
      undefined == \/ ~queue_asserted(queues, l.queue)
                   \/ Len(minimum) > Len(local)
  IN
  IF ~ndebug /\ ~precondition
  THEN {[l EXCEPT !.pc = "assert_failed"]}
  ELSE IF undefined
  THEN {[l EXCEPT !.pc = pc] : pc \in {"undefined_submitted", "undefined_crashed"}}
  ELSE IF ~ndebug /\ \E i \in 1..Len(minimum) :
                       ~multiple_asserted(minimum[i], local[i])
  THEN {[l EXCEPT !.pc = "assert_failed"]}
  ELSE {[l EXCEPT !.pc = "submitted",
                  !.global = global_range(minimum, local),
                  !.local_passed = local,
                  !.err = err] : err \in statuses}

EnqueueNDRangeKernel ==
  /\ launch.pc = "call"
  /\ launch' \in enqueue_ndrange_kernel(launch, EnqueueStatus)
  /\ UNCHANGED <<cacheVars, binderVars, queues, ndebug, callVars, otherVars>>

InitLaunch ==
  /\ program_cache = EmptyMap
  /\ kernels = EmptyMap
  /\ num_compiled = [p \in ProgramNames |-> 0]
  /\ last = NoCall
  /\ num_arguments = 0
  /\ set_args = <<>>
  /\ num_resets = 0
  /\ queues = <<"ok">>
  /\ ndebug \in BOOLEAN
  /\ \E a \in LaunchArguments, q \in QueueIds :
       launch = [NoLaunch EXCEPT !.pc = "call", !.minimum = a[1],
                                 !.local = a[2], !.queue = q]
  /\ OthersIdle

NextLaunch == EnqueueNDRangeKernel

SpecLaunch == InitLaunch /\ [][NextLaunch]_vars

\* C9: whenever a launch is submitted with ranges of equal dimensionality,
\* every dimension of the submitted global size is a multiple of the local
\* size, at least the minimum size and less than minimum + local, and the
\* local range is passed on as given.
C9_GlobalSizeIsSmallestMultiple ==
  (launch.pc = "submitted" /\ Len(launch.minimum) = Len(launch.local))
    => /\ launch.local_passed = launch.local
       /\ Len(launch.global) = Len(launch.minimum)
       /\ \A i \in 1..Len(launch.minimum) :
            /\ launch.global[i] % launch.local[i] = 0
            /\ launch.global[i] >= launch.minimum[i]
            /\ launch.global[i] < launch.minimum[i] + launch.local[i]

\* the call broke the contract of enqueue_ndrange_kernel
ContractViolated(l) ==
  \/ Len(l.minimum) # Len(l.local)
  \/ l.queue >= Len(queues)

\* C18 as stated: a call with ranges of different dimensionality or with a
\* queue id that is not below the number of queues stops at the assertion:
\* no global size is computed and nothing is submitted.
C18_ContractViolationStops ==
  (launch.pc # "call" /\ ContractViolated(launch))
    => /\ launch.pc = "assert_failed"
       /\ launch.global = <<>>
       /\ launch.local_passed = <<>>

\* C18: in a build with assert() active such a call stops at the assertion:
\* no global size is computed and nothing is submitted; in a build with
\* NDEBUG no assertion stops it.
C18_ContractViolationStopsIfAsserted ==
  (launch.pc # "call" /\ ContractViolated(launch))
    => IF ~ndebug
       THEN /\ launch.pc = "assert_failed"
            /\ launch.global = <<>>
            /\ launch.local_passed = <<>>
       ELSE launch.pc # "assert_failed"

\* a one-dimensional minimum range with a two-dimensional local range on the
\* default queue was stopped by the assertion
C18_Witness ==
  /\ ~ndebug
  /\ launch.pc = "assert_failed"
  /\ launch.queue = 0
  /\ Len(launch.minimum) = 1
  /\ Len(launch.local) = 2
  /\ launch.global = <<>>

\* C29: in a call that passed the leading assertions with every local size
\* and every minimum size at least 1, the computation of the global size
\* does not wrap: in every dimension the computed multiple satisfies
\* multiple % local == 0 && multiple >= minimum, so the call is not stopped
\* at that assertion.
C29_RoundingNeverWraps ==
  (/\ launch.pc # "call"
   /\ ~ContractViolated(launch)
   /\ \A i \in 1..Len(launch.minimum) :
        launch.minimum[i] >= 1 /\ launch.local[i] >= 1)
    => /\ launch.pc # "assert_failed"
       /\ \A i \in 1..Len(launch.minimum) :
            LET m == multiple(launch.minimum[i], launch.local[i])
            IN m % launch.local[i] = 0 /\ m >= launch.minimum[i]

(***************************************************************************)
(* kernel_argument_list                                                    *)
(***************************************************************************)
\* pushes on one binder between two resets, and resets, followed by the model
MaxPushes == 3
MaxResets == 2

ValueTypes == {"cl_int", "cl::Buffer"}
\* what cl::Kernel::setArg returns
SetArgStatus == {"CL_SUCCESS", "CL_INVALID_ARG_INDEX"}

\* variant: the counter advances only when the driver accepted the argument
counter_after_push_if_accepted(count, err) ==
  IF err = "CL_SUCCESS" THEN count + 1 ELSE count

\* ++_num_arguments; after setArg, whatever it returned
counter_after_push(count, err) == count + 1

\* variant: reset() leaves the counter where it is
counter_not_reset == num_arguments

\* _num_arguments = 0;
counter_after_reset == 0

\* unsigned get_num_pushed_arguments() const
get_num_pushed_arguments == num_arguments

\* cl_int push(const T& data): _kernel->setArg(_num_arguments, data)
\* cl_int push(const void* data, std::size_t size):
\*   _kernel->setArg(_num_arguments, size, data)
push(overload, type, err) ==
  /\ Len(set_args) < MaxPushes
  /\ set_args' = Append(set_args, [index |-> num_arguments, overload |-> overload,
                                   type |-> type, err |-> err])
  /\ num_arguments' = counter_after_push(num_arguments, err)
  /\ UNCHANGED <<num_resets, cacheVars, launchVars, callVars, otherVars>>

PushValue ==
  \E type \in ValueTypes, err \in SetArgStatus : push("value", type, err)

PushBlock ==
  \E err \in SetArgStatus : push("pointer+size", "void", err)

\* void reset()
Reset ==
  /\ num_resets < MaxResets
  /\ num_arguments' = counter_after_reset
  /\ set_args' = <<>>
  /\ num_resets' = num_resets + 1
  /\ UNCHANGED <<cacheVars, launchVars, callVars, otherVars>>

NextBinder == PushValue \/ PushBlock \/ Reset

SpecBinder == Init /\ [][NextBinder]_vars

\* C10: the i-th push since construction or the last reset binds at index
\* i-1, whichever overload and value type is pushed and whether or not the
\* driver accepts it, and get_num_pushed_arguments is the number of those
\* pushes; so the first push after reset() binds at index 0.
C10_PushIsPositional ==
  /\ get_num_pushed_arguments = Len(set_args)
  /\ \A i \in 1..Len(set_args) : set_args[i].index = i - 1

\* three pushes after a reset: a rejected value, a raw block, a buffer
C10_Witness ==
  /\ num_resets > 0
  /\ Len(set_args) = 3
  /\ set_args[1].err = "CL_INVALID_ARG_INDEX"
  /\ set_args[2].overload = "pointer+size"
  /\ set_args[3].type = "cl::Buffer"
  /\ get_num_pushed_arguments = 3

(***************************************************************************)
(* kernel_call: one object, its kernel_argument_list _args (num_arguments,  *)
(* set_args), the cl::Kernel it shares with the device context              *)
(* (kernel_args) and its ranges _work_dim and _group_dim (launch.minimum,   *)
(* launch.local).                                                           *)
(***************************************************************************)
\* longest argument list passed in one call, and highest binder index
\* followed: one more than the kernel has parameters
MaxArgs == KernelNumArgs + 1

\* argument values
ArgValues == {"a", "b"}
ArgumentLists == SeqsUpTo(ArgValues, MaxArgs)

\* the ranges a kernel_call is constructed with: equal dimensions (exact
\* multiple, rounded up), and the two kinds of mismatch
CallRanges ==
  {<<(<<16>>), (<<16>>)>>, <<(<<70>>), (<<16>>)>>,
   <<(<<16>>), (<<16, 16>>)>>, <<(<<16, 16>>), (<<16>>)>>}

\* cl::Kernel::setArg(index, value) as the driver answers it: an index the
\* kernel function has no parameter for is rejected and nothing is stored
setArg(args, index, value) ==
  IF index >= Len(args)
  THEN [err |-> "CL_INVALID_ARG_INDEX", args |-> args]
  ELSE [err |-> "CL_SUCCESS", args |-> [args EXCEPT ![index + 1] = value]]

\* what clEnqueueNDRangeKernel can answer for a kernel holding args
DriverEnqueueStatus(args) ==
  IF \E i \in 1..Len(args) : args[i] = "unset"
  THEN {"CL_INVALID_KERNEL_ARGS"}
  ELSE EnqueueStatus

\* void push_argument(const T& x) { _args.push(x); } : the cl_int that push
\* returns is dropped; st carries _num_arguments, the kernel's arguments and
\* the setArg calls made
push_argument(st, x) ==
  LET r == setArg(st.args, st.count, x)
  IN [count |-> counter_after_push(st.count, r.err),
      args |-> r.args,
      log |-> Append(st.log, [index |-> st.count, value |-> x, err |-> r.err])]

\* configure_arguments(x, arguments...): push_argument(x), then the rest
RECURSIVE configure_arguments(_, _, _)
configure_arguments(st, arguments, i) ==
  IF i > Len(arguments) THEN st
  ELSE configure_arguments(push_argument(st, arguments[i]), arguments, i + 1)

\* cl_int enqueue_kernel() const: the ranges of the object, the default queue
enqueue_kernel(args) ==
  enqueue_ndrange_kernel([NoLaunch EXCEPT !.pc = "call",
                                          !.minimum = launch.minimum,
                                          !.local = launch.local,
                                          !.queue = 0],
                         DriverEnqueueStatus(args))

\* the launch reached the driver's queue
Submitted(l) == l.pc \in {"submitted", "undefined_submitted"}

\* cl_int operator()(Args... arguments)
KernelCallInvoke ==
  /\ kernel_call.returned
  /\ \E arguments \in ArgumentLists :
       LET st == configure_arguments([count |-> counter_after_reset,
                                      args |-> kernel_args, log |-> <<>>],
                                     arguments, 1)
       IN \E out \in enqueue_kernel(st.args) :
            /\ kernel_args' = st.args
            /\ launch' = out
            /\ num_arguments' = IF Submitted(out) THEN counter_after_reset ELSE st.count
            /\ set_args' = IF Submitted(out) THEN <<>> ELSE st.log
            /\ kernel_call' = [op |-> "operator()",
                               arguments |-> arguments,
                               index_before |-> num_arguments,
                               bound |-> st.log,
                               enqueues |-> IF Submitted(out) THEN 1 ELSE 0,
                               launched |-> IF Submitted(out) THEN st.args ELSE <<>>,
                               returned |-> Submitted(out),
                               result |-> IF Submitted(out) THEN out.err ELSE "none"]
  /\ UNCHANGED <<cacheVars, num_resets, queues, ndebug, otherVars>>

\* void partial_argument_list(Args... arguments): the source passes the pack
\* to configure_arguments without the trailing "..."; the model follows the
\* expansion configure_arguments(arguments...)
PartialArgumentList ==
  /\ kernel_call.returned
  /\ \E arguments \in ArgumentLists :
       LET st == configure_arguments([count |-> num_arguments,
                                      args |-> kernel_args, log |-> <<>>],
                                     arguments, 1)
       IN /\ num_arguments + Len(arguments) <= MaxArgs
          /\ kernel_args' = st.args
          /\ num_arguments' = st.count
          /\ set_args' = set_args \o st.log
          /\ kernel_call' = [NoKernelCall EXCEPT !.op = "partial_argument_list",
                                                 !.arguments = arguments,
                                                 !.index_before = num_arguments,
                                                 !.bound = st.log,
                                                 !.result = "void"]
  /\ UNCHANGED <<cacheVars, num_resets, launchVars, otherVars>>

\* void discard_partial_arguments() { _args.reset(); }
DiscardPartialArguments ==
  /\ kernel_call.returned
  /\ num_arguments' = counter_after_reset
  /\ set_args' = <<>>
  /\ kernel_call' = [NoKernelCall EXCEPT !.op = "discard_partial_arguments",
                                         !.index_before = num_arguments,
                                         !.result = "void"]
  /\ UNCHANGED <<cacheVars, num_resets, launchVars, kernel_args, otherVars>>

\* enqueue_kernel() called by the user of the object
EnqueueKernel ==
  /\ kernel_call.returned
  /\ \E out \in enqueue_kernel(kernel_args) :
       /\ launch' = out
       /\ kernel_call' = [NoKernelCall EXCEPT
                            !.op = "enqueue_kernel",
                            !.index_before = num_arguments,
                            !.enqueues = IF Submitted(out) THEN 1 ELSE 0,
                            !.launched = IF Submitted(out) THEN kernel_args ELSE <<>>,
                            !.returned = Submitted(out),
                            !.result = IF Submitted(out) THEN out.err ELSE "none"]
  /\ UNCHANGED <<cacheVars, binderVars, queues, ndebug, kernel_args, otherVars>>

\* a kernel_call just constructed for a kernel nobody has set arguments of
InitCall ==
  /\ program_cache = EmptyMap
  /\ kernels = EmptyMap
  /\ num_compiled = [p \in ProgramNames |-> 0]
  /\ last = NoCall
  /\ num_arguments = 0
  /\ set_args = <<>>
  /\ num_resets = 0
  /\ queues = <<"ok">>
  /\ ndebug \in BOOLEAN
  /\ \E r \in CallRanges :
       launch = [NoLaunch EXCEPT !.minimum = r[1], !.local = r[2]]
  /\ OthersIdle

NextCall ==
  KernelCallInvoke \/ PartialArgumentList \/ DiscardPartialArguments \/ EnqueueKernel

SpecCall == InitCall /\ [][NextCall]_vars

BoundValues(log) == [i \in 1..Len(log) |-> log[i].value]

\* C11: every invocation of a kernel_call with n arguments binds argument i
\* at index i-1, whatever the binder index was before it; an invocation
\* that is not stopped by the launch contract submits exactly one launch and
\* returns with the binder index at 0.
C11_InvocationBindsFromZero ==
  kernel_call.op = "operator()"
    => /\ BoundValues(kernel_call.bound) = kernel_call.arguments
       /\ \A i \in 1..Len(kernel_call.bound) : kernel_call.bound[i].index = i - 1
       /\ kernel_call.returned
            => /\ kernel_call.enqueues = 1
               /\ num_arguments = 0
               /\ get_num_pushed_arguments = 0
               /\ set_args = <<>>

\* an invocation with two arguments made while a prefix bound by
\* partial_argument_list was pending: both were accepted at indices 0 and 1
\* and the launch succeeded
C11_Witness ==
  /\ kernel_call.op = "operator()"
  /\ kernel_call.index_before > 0
  /\ kernel_call.arguments = <<"a", "b">>
  /\ kernel_call.launched = <<"a", "b">>
  /\ kernel_call.returned
  /\ kernel_call.result = "CL_SUCCESS"
  /\ num_arguments = 0

\* C12: with a prefix of k arguments bound by partial_argument_list, the
\* arguments bound next by a further partial_argument_list or by the
\* invocation operator take the indices k, k+1, ...; the launch sees every
\* accepted argument of the prefix at its index; discard_partial_arguments
\* returns the index to 0.
C12_PrefixIsContinued ==
  [][/\ (num_arguments > 0
         /\ kernel_call'.op \in {"partial_argument_list", "operator()"})
        => \A i \in 1..Len(kernel_call'.bound) :
             kernel_call'.bound[i].index = num_arguments + i - 1
     /\ (num_arguments > 0 /\ kernel_call'.enqueues = 1)
        => \A i \in 1..Len(set_args) :
             set_args[i].err = "CL_SUCCESS"
               => kernel_call'.launched[set_args[i].index + 1] = set_args[i].value
     /\ kernel_call'.op = "discard_partial_arguments" => num_arguments' = 0]_vars

\* C13: an invocation during which the driver rejected an argument does not
\* return CL_SUCCESS, and an invocation all of whose arguments were accepted
\* returns the status of the enqueue.
C13_BindFailureIsReported ==
  (kernel_call.op = "operator()" /\ kernel_call.returned)
    => /\ (\E i \in 1..Len(kernel_call.bound) :
             kernel_call.bound[i].err # "CL_SUCCESS")
          => kernel_call.result # "CL_SUCCESS"
       /\ (\A i \in 1..Len(kernel_call.bound) :
             kernel_call.bound[i].err = "CL_SUCCESS")
          => kernel_call.result = launch.err

(***************************************************************************)
(* device_context::create_buffer                                           *)
(***************************************************************************)
\* cl_mem_flags as the set of its bits; flags |= X adds the bit X
MemFlags ==
  {"CL_MEM_READ_WRITE", "CL_MEM_WRITE_ONLY", "CL_MEM_READ_ONLY",
   "CL_MEM_USE_HOST_PTR", "CL_MEM_ALLOC_HOST_PTR", "CL_MEM_COPY_HOST_PTR"}

\* cl_device_type as the set of its bits, as CL_DEVICE_TYPE reports it
DeviceTypes ==
  {{"CL_DEVICE_TYPE_CPU"}, {"CL_DEVICE_TYPE_GPU"}, {"CL_DEVICE_TYPE_ACCELERATOR"},
   {"CL_DEVICE_TYPE_GPU", "CL_DEVICE_TYPE_DEFAULT"}}

BufferStatus == {"CL_SUCCESS", "CL_MEM_OBJECT_ALLOCATION_FAILURE"}

\* return get_device_type() == CL_DEVICE_TYPE_CPU;
is_cpu_device(device_type) == device_type = {"CL_DEVICE_TYPE_CPU"}

\* variant: a CPU device copies the initial data like any other device
create_buffer_flags_copy(device_type, flags, initial_data) ==
  IF initial_data THEN flags \cup {"CL_MEM_COPY_HOST_PTR"} ELSE flags

\* the flags of buffer_ptr create_buffer(flags, size, initial_data)
create_buffer_flags(device_type, flags, initial_data) ==
  IF is_cpu_device(device_type)
  THEN IF ~initial_data
       THEN flags \cup {"CL_MEM_ALLOC_HOST_PTR"}
       ELSE flags \cup {"CL_MEM_USE_HOST_PTR"}
  ELSE IF initial_data
       THEN flags \cup {"CL_MEM_COPY_HOST_PTR"}
       ELSE flags

\* the flags of void create_buffer(out, flags, size, initial_data)
create_buffer_out_flags(device_type, flags, initial_data) ==
  IF is_cpu_device(device_type)
  THEN IF ~initial_data
       THEN flags \cup {"CL_MEM_ALLOC_HOST_PTR"}
       ELSE flags \cup {"CL_MEM_USE_HOST_PTR"}
  ELSE IF initial_data
       THEN flags \cup {"CL_MEM_COPY_HOST_PTR"}
       ELSE flags

\* either overload: cl::Buffer(_context, flags, size * sizeof(T),
\* initial_data, &err), then check_cl_error(err, ...)
CreateBuffer ==
  /\ buffer.pc = "call"
  /\ \E err \in BufferStatus :
       buffer' = [buffer EXCEPT
                    !.pc = IF err = "CL_SUCCESS" THEN "created" ELSE "qcl_error",
                    !.requested =
                       IF buffer.overload = "buffer_ptr"
                       THEN create_buffer_flags(buffer.device_type, buffer.flags,
                                                buffer.initial_data)
                       ELSE create_buffer_out_flags(buffer.device_type, buffer.flags,
                                                    buffer.initial_data),
                    !.host_ptr = buffer.initial_data,
                    !.err = err]
  /\ UNCHANGED <<cacheVars, binderVars, launchVars, callVars, constructed, queue_op, threads, restVars>>

InitBuffer ==
  /\ program_cache = EmptyMap
  /\ kernels = EmptyMap
  /\ num_compiled = [p \in ProgramNames |-> 0]
  /\ last = NoCall
  /\ num_arguments = 0
  /\ set_args = <<>>
  /\ num_resets = 0
  /\ queues = <<"ok">>
  /\ ndebug = FALSE
  /\ launch = NoLaunch
  /\ kernel_args = UnsetArgs
  /\ kernel_call = NoKernelCall
  /\ \E overload \in {"buffer_ptr", "out"}, device_type \in DeviceTypes,
        flags \in SUBSET MemFlags, initial_data \in BOOLEAN :
       buffer = [NoBuffer EXCEPT !.pc = "call", !.overload = overload,
                                 !.device_type = device_type, !.flags = flags,
                                 !.initial_data = initial_data]
  /\ constructed = "device"
  /\ queue_op = NoQueueOp
  /\ threads = NoThreads
  /\ RestIdle

NextBuffer == CreateBuffer

SpecBuffer == InitBuffer /\ [][NextBuffer]_vars

\* the one flag the allocation policy adds for a device class and the
\* presence of initial data
PolicyFlags(cpu, data) ==
  IF cpu /\ ~data THEN {"CL_MEM_ALLOC_HOST_PTR"}
  ELSE IF cpu /\ data THEN {"CL_MEM_USE_HOST_PTR"}
  ELSE IF data THEN {"CL_MEM_COPY_HOST_PTR"}
  ELSE {}

\* C14: the flags create_buffer hands to the driver are the caller's flags
\* plus the one policy flag of (CPU device, initial data present): ALLOC for
\* CPU without data, USE for CPU with data, COPY for another device with
\* data, nothing otherwise; no caller flag is dropped; both overloads
\* compute the same flags.
C14_BufferFlags ==
  buffer.pc \in {"created", "qcl_error"}
    => /\ buffer.requested
            = buffer.flags \cup PolicyFlags(is_cpu_device(buffer.device_type),
                                            buffer.initial_data)
       /\ buffer.flags \subseteq buffer.requested
       /\ create_buffer_flags(buffer.device_type, buffer.flags, buffer.initial_data)
            = create_buffer_out_flags(buffer.device_type, buffer.flags,
                                      buffer.initial_data)

\* the out-parameter overload created a read-only buffer over the caller's
\* data on a CPU device
C14_Witness ==
  /\ buffer.pc = "created"
  /\ buffer.overload = "out"
  /\ is_cpu_device(buffer.device_type)
  /\ buffer.initial_data
  /\ buffer.flags = {"CL_MEM_READ_ONLY"}
  /\ buffer.requested = {"CL_MEM_READ_ONLY", "CL_MEM_USE_HOST_PTR"}

(***************************************************************************)
(* QCL_ENTRYPOINT (qcl_module.hpp): the entry points of the instantiations  *)
(* of a module template, on one device context that is also asked for the   *)
(* module's kernels by name.                                                *)
(***************************************************************************)
ModuleNames == {_qcl_get_module_name(T) : T \in TemplateArgs}

\* _qcl_get_module_name()+"::"+kernel_name
EntryPointKey(T, kernel_name) == _qcl_get_module_name(T) \o "::" \o kernel_name

ModuleKeys == {EntryPointKey(T, e) : T \in TemplateArgs, e \in EntryPoints}

\* static qcl::kernel_call kernel_name(ctx, minimum_work_dim, group_dim, ...):
\* register_source_code, then get_kernel on the scoped name; an exception of
\* either ends the call
QCL_ENTRYPOINT(T, kernel_name) ==
  \E r \in {register_source_code_on(program_cache, kernels, num_compiled,
                                     _qcl_source(T), <<kernel_name>>,
                                     _qcl_get_module_name(T),
                                     _qcl_get_module_name(T))} :
  LET key == EntryPointKey(T, kernel_name)
      found == get_kernel_result(r.kernels, key)
  IN /\ program_cache' = r.program_cache
     /\ num_compiled' = r.num_compiled
     /\ IF r.last.outcome # "ok"
          THEN /\ kernels' = r.kernels
               /\ last' = [r.last EXCEPT !.op = "QCL_ENTRYPOINT",
                                          !.kernel_name = key]
          ELSE /\ kernels' = IndexKernels(r.kernels, key)
               /\ last' = [r.last EXCEPT !.op = "QCL_ENTRYPOINT",
                                          !.kernel_name = key,
                                          !.outcome = found.outcome,
                                          !.result = found.result]

EntryPoint ==
  \E T \in TemplateArgs, kernel_name \in EntryPoints :
    /\ QCL_ENTRYPOINT(T, kernel_name)
    /\ UNCHANGED <<binderVars, launchVars, callVars, otherVars>>

\* ctx->get_kernel called by the user with the scoped name of an entry point
GetModuleKernel ==
  \E key \in ModuleKeys :
    /\ get_kernel(key)
    /\ UNCHANGED <<binderVars, launchVars, callVars, otherVars>>

InitModule ==
  /\ program_cache = EmptyMap
  /\ kernels = EmptyMap
  /\ num_compiled = [p \in ModuleNames |-> 0]
  /\ last = NoCall
  /\ num_arguments = 0
  /\ set_args = <<>>
  /\ num_resets = 0
  /\ queues = <<"ok">>
  /\ ndebug = FALSE
  /\ launch = NoLaunch
  /\ OthersIdle

NextModule == EntryPoint \/ GetModuleKernel

SpecModule == InitModule /\ [][NextModule]_vars

\* C15: nothing but an entry point compiles a module instantiation, an entry
\* point compiles no instantiation but its own, and when an entry-point call
\* ends its instantiation has been compiled exactly once on the context and
\* the call has the kernel handle of its own program and scope; two
\* instantiations have different program names, scopes and handles.
C15_ModuleCompiledOnce ==
  [][/\ last'.op # "QCL_ENTRYPOINT" => num_compiled' = num_compiled
     /\ last'.op = "QCL_ENTRYPOINT"
        => /\ \A m \in ModuleNames \ {last'.program_name} :
                num_compiled'[m] = num_compiled[m]
           /\ num_compiled'[last'.program_name] = 1
           /\ last'.outcome = "ok"
           /\ ~IsNull(last'.result)
           /\ last'.result.program_name = last'.program_name
           /\ last'.result.scope = last'.scope
           /\ last'.result.program.source = last'.source
     /\ \A T1 \in TemplateArgs, T2 \in TemplateArgs, e \in EntryPoints :
          T1 # T2
            => /\ _qcl_get_module_name(T1) # _qcl_get_module_name(T2)
               /\ EntryPointKey(T1, e) # EntryPointKey(T2, e)
               /\ (HasKernel(kernels', EntryPointKey(T1, e))
                   /\ HasKernel(kernels', EntryPointKey(T2, e)))
                  => kernels'[EntryPointKey(T1, e)] # kernels'[EntryPointKey(T2, e)]]_vars

(***************************************************************************)
(* The command queues of a device_context: its constructors,                *)
(* add_command_queue, require_several_command_queues and the default queue. *)
(***************************************************************************)
\* most command queues followed by the model
MaxQueues == 4

\* what cl::CommandQueue(_context, _device, props, &err) can set err to: a
\* default-constructed device_context has no context and no device
QueueStatus(by) ==
  IF by = "default" THEN {"CL_INVALID_CONTEXT"}
  ELSE {"CL_SUCCESS", "CL_OUT_OF_HOST_MEMORY"}

\* _queues.push_back(cl::CommandQueue(_context, _device, props, &err)): the
\* queue object is appended whatever err is
push_back_queue(queue_list, err) ==
  Append(queue_list, IF err = "CL_SUCCESS" THEN "ok" ELSE "failed")

\* command_queue_id add_command_queue(props): push_back, then check_cl_error
AddCommandQueue ==
  /\ Len(queues) < MaxQueues
  /\ \E err \in QueueStatus(constructed) :
       /\ queues' = push_back_queue(queues, err)
       /\ queue_op' = [op |-> "add_command_queue",
                       outcome |-> IF err = "CL_SUCCESS" THEN "returned"
                                   ELSE "qcl_error",
                       id |-> IF err = "CL_SUCCESS" THEN Len(queues') - 1 ELSE 0,
                       before |-> Len(queues)]
  /\ UNCHANGED <<cacheVars, binderVars, ndebug, launch, callVars,
                 buffer, constructed, threads, restVars>>

\* variant: if instead of while, at most one queue is added
queues_added_once(queue_list, num_queues, failing) ==
  IF Len(queue_list) >= num_queues THEN queue_list
  ELSE push_back_queue(queue_list, IF failing = 0 THEN "CL_OUT_OF_HOST_MEMORY"
                                   ELSE "CL_SUCCESS")

\* while(get_num_command_queues() < num_queues) add_command_queue(); : added
\* queues are created until enough exist or one creation fails
RECURSIVE queues_added(_, _, _)
queues_added(queue_list, num_queues, failing) ==
  IF Len(queue_list) >= num_queues THEN queue_list
  ELSE IF failing = 0 THEN push_back_queue(queue_list, "CL_OUT_OF_HOST_MEMORY")
  ELSE queues_added(push_back_queue(queue_list, "CL_SUCCESS"), num_queues, failing - 1)

\* void require_several_command_queues(num_queues); failing is the number of
\* creations the driver grants before it refuses one
RequireSeveralCommandQueues ==
  /\ \E num_queues \in 0..MaxQueues, failing \in 0..MaxQueues :
       /\ "CL_SUCCESS" \notin QueueStatus(constructed) => failing = 0
       /\ queues' = queues_added(queues, num_queues, failing)
       /\ queue_op' = [op |-> "require_several_command_queues",
                       outcome |-> IF \E i \in 1..Len(queues') :
                                        i > Len(queues) /\ queues'[i] = "failed"
                                   THEN "qcl_error" ELSE "returned",
                       id |-> num_queues,
                       before |-> Len(queues)]
  /\ UNCHANGED <<cacheVars, binderVars, ndebug, launch, callVars,
                 buffer, constructed, threads, restVars>>

\* cl::CommandQueue& get_command_queue() { return _queues[0]; } : on an empty
\* vector the reference is to nothing
GetCommandQueue ==
  /\ \E outcome \in IF Len(queues) > 0 THEN {"returned"}
                     ELSE {"undefined_reference", "undefined_crashed"} :
       queue_op' = [op |-> "get_command_queue", outcome |-> outcome, id |-> 0,
                    before |-> Len(queues)]
  /\ UNCHANGED <<cacheVars, binderVars, launchVars, callVars,
                 buffer, constructed, threads, restVars>>

\* a device_context as one of its constructors leaves it: device_context()
\* creates no queue; the constructors taking a device run init_device, whose
\* add_command_queue either created the first queue or threw, in which case
\* there is no object
InitQueues ==
  /\ program_cache = EmptyMap
  /\ kernels = EmptyMap
  /\ num_compiled = [p \in ProgramNames |-> 0]
  /\ last = NoCall
  /\ num_arguments = 0
  /\ set_args = <<>>
  /\ num_resets = 0
  /\ constructed \in {"default", "device"}
  /\ queues = IF constructed = "default" THEN <<>> ELSE <<"ok">>
  /\ ndebug = FALSE
  /\ launch = NoLaunch
  /\ kernel_args = UnsetArgs
  /\ kernel_call = NoKernelCall
  /\ buffer = NoBuffer
  /\ queue_op = NoQueueOp
  /\ threads = NoThreads
  /\ RestIdle

NextQueues == AddCommandQueue \/ RequireSeveralCommandQueues \/ GetCommandQueue

SpecQueues == InitQueues /\ [][NextQueues]_vars

\* C17: a device_context has at least one command queue in every state, its
\* queue 0 was created successfully, and get_command_queue() returns it.
C17_AlwaysAQueue ==
  /\ Len(queues) >= 1
  /\ queues[1] = "ok"
  /\ queue_op.op = "get_command_queue" => queue_op.outcome = "returned"

(***************************************************************************)
(* Two threads calling register_source_code on one device context without   *)
(* a lock. A thread is at one of the statements of the function: "check"    *)
(* (before _program_cache.find), "compile" (before compile_source and the    *)
(* assignment to _program_cache), "load" (before load_kernels). Each         *)
(* statement takes effect at once; the container operations of two threads  *)
(* are taken in some order.                                                 *)
(***************************************************************************)
ThreadIds == {"t1", "t2"}
ThreadSources == {"srcA", "srcB"}
ThreadKernelNames == {<<"k1">>, <<"k1", "k2">>}

Other(t) == IF t = "t1" THEN "t2" ELSE "t1"

\* the thread is between the entry and the return of register_source_code
Inside(thread) == thread.pc \in {"check", "compile", "load"}

\* the call is entered: the loop over kernel_names fills new_kernels
ThreadBegin ==
  \E t \in ThreadIds, source_code \in ThreadSources,
     kernel_names \in ThreadKernelNames, program_name \in ProgramNames :
    LET new == new_kernels(kernels, kernel_names, "")
    IN /\ ~Inside(threads[t])
       /\ threads' = [threads EXCEPT
                        ![t] = [NoThread EXCEPT
                                  !.pc = IF Len(new) > 0 THEN "check" ELSE "done",
                                  !.source = source_code,
                                  !.kernel_names = kernel_names,
                                  !.program_name = program_name,
                                  !.new = new],
                        !.overlapped = @ \/ Inside(threads[Other(t)])]
       /\ UNCHANGED <<cacheVars, binderVars, launchVars, callVars,
                      buffer, constructed, queue_op, restVars>>

\* auto cached_program = _program_cache.find(program_name);
\* if(cached_program == _program_cache.end())
ThreadCheck ==
  \E t \in ThreadIds :
    /\ threads[t].pc = "check"
    /\ threads' = [threads EXCEPT
                     ![t].pc = IF NotCached(program_cache, threads[t].program_name)
                               THEN "compile" ELSE "load"]
    /\ UNCHANGED <<cacheVars, binderVars, launchVars, callVars,
                   buffer, constructed, queue_op, restVars>>

\* compile_source(source_code, prog); _program_cache[program_name] = prog;
ThreadCompile ==
  \E t \in ThreadIds :
    LET this == threads[t]
        built == compile_source(this.source)
    IN /\ this.pc = "compile"
       /\ IF built.ok
          THEN /\ program_cache' = Put(program_cache, this.program_name, built.program)
               /\ num_compiled' = [num_compiled EXCEPT ![this.program_name] = @ + 1]
               /\ threads' = [threads EXCEPT ![t].pc = "load", ![t].compiled = TRUE]
          ELSE /\ UNCHANGED <<program_cache, num_compiled>>
               /\ threads' = [threads EXCEPT ![t].pc = "done",
                                              ![t].outcome = "CompileError"]
       /\ UNCHANGED <<kernels, last, binderVars, launchVars, callVars,
                      buffer, constructed, queue_op, restVars>>

\* load_kernels(_program_cache[program_name], new_kernels, scope);
ThreadLoad ==
  \E t \in ThreadIds :
    LET this == threads[t]
        st == load_kernels([kernels |-> kernels, created |-> <<>>, threw |-> FALSE],
                           program_cache[this.program_name], this.program_name,
                           this.new, this.scope, 1)
    IN /\ this.pc = "load"
       /\ kernels' = st.kernels
       /\ threads' = [threads EXCEPT
                        ![t].pc = "done",
                        ![t].created = st.created,
                        ![t].outcome = IF st.threw THEN "KernelError" ELSE "ok"]
       /\ UNCHANGED <<program_cache, num_compiled, last, binderVars, launchVars,
                      callVars, buffer, constructed, queue_op, restVars>>

NextThreads == ThreadBegin \/ ThreadCheck \/ ThreadCompile \/ ThreadLoad

SpecThreads == Init /\ [][NextThreads]_vars

\* C20: as long as no call of register_source_code was entered while the
\* other thread was inside one, every program name has been compiled at
\* most once; calls that overlap can compile a name twice (C20_Witness).
C20_SerializedCompilesOnce ==
  ~threads.overlapped => \A p \in ProgramNames : num_compiled[p] <= 1

\* both threads found "P1" absent, both compiled it, and both created a
\* kernel object for the scoped name "k1"
C20_Witness ==
  /\ threads.overlapped
  /\ num_compiled["P1"] = 2
  /\ \A t \in ThreadIds :
       /\ threads[t].pc = "done"
       /\ threads[t].program_name = "P1"
       /\ threads[t].compiled
       /\ threads[t].created = <<"k1">>

Max(a, b) == IF a >= b THEN a ELSE b

\* C21: a require_several_command_queues(n) that returns leaves
\* max(previous count, n) queues, having appended max(0, n - previous count)
\* created queues and none when enough existed; an add_command_queue that
\* returns gives the previous count as the id of the one queue it appended;
\* both leave the queues at the existing indices as they were.
C21_RequireCreatesMissingQueues ==
  [][/\ (queue_op'.op = "require_several_command_queues"
         /\ queue_op'.outcome = "returned")
        => /\ Len(queues') = Max(Len(queues), queue_op'.id)
           /\ Len(queues') - Len(queues) = Max(0, queue_op'.id - Len(queues))
           /\ SubSeq(queues', 1, Len(queues)) = queues
           /\ \A i \in (Len(queues) + 1)..Len(queues') : queues'[i] = "ok"
     /\ (queue_op'.op = "add_command_queue" /\ queue_op'.outcome = "returned")
        => /\ queue_op'.id = Len(queues)
           /\ Len(queues') = Len(queues) + 1
           /\ queues'[queue_op'.id + 1] = "ok"
           /\ SubSeq(queues', 1, Len(queues)) = queues]_vars

\* require_several_command_queues(3) on a context with one queue returned
\* after creating two
C21_Witness ==
  /\ queue_op.op = "require_several_command_queues"
  /\ queue_op.outcome = "returned"
  /\ queue_op.id = 3
  /\ queue_op.before = 1
  /\ queues = <<"ok", "ok", "ok">>

\* C28: an add_command_queue that ends with the driver's error leaves the
\* queue sequence as it was, and every queue of a context was created
\* successfully.
C28_FailedAddLeavesQueues ==
  [][(queue_op'.op = "add_command_queue" /\ queue_op'.outcome = "qcl_error")
       => /\ queues' = queues
          /\ \A i \in 1..Len(queues') : queues'[i] = "ok"]_vars

(***************************************************************************)
(* device_array<T>::write (qcl_array.hpp) over device_context::memcpy_h2d  *)
(***************************************************************************)
\* largest number of elements of a device array and of a host vector
MaxElements == 3

ArrayWriteStatus == {"CL_SUCCESS", "CL_OUT_OF_RESOURCES"}

\* clEnqueueWriteBuffer on a buffer of capacity elements: a region that is
\* empty or leaves the buffer is refused, otherwise the driver answers status
WriteBufferStatus(capacity, offset, size, status) ==
  IF size = 0 \/ offset + size > capacity THEN "CL_INVALID_VALUE" ELSE status

\* memcpy_h2d(buff, data, begin, end, queue): the sets of outcomes; host_read
\* is the number of elements the driver reads starting at data.  Reading
\* more elements than the host array holds is undefined: the call may
\* return or the process may crash.
memcpy_h2d(aw, nd) ==
  IF ~nd /\ ~(aw.end > aw.begin)
  THEN {[aw EXCEPT !.pc = "done", !.outcome = "aborted"]}
  ELSE LET size == (aw.end - aw.begin) % WordModulus
           err == WriteBufferStatus(aw.num_elements, aw.begin, size, aw.status)
       IN IF err # "CL_SUCCESS"
          THEN {[aw EXCEPT !.pc = "done", !.outcome = "qcl_error"]}
          ELSE {[aw EXCEPT !.pc = "done", !.host_read = size, !.outcome = o] :
                  o \in IF size > aw.data_size THEN {"returned", "crashed"}
                                                ELSE {"returned"}}

\* write(const T* data, out_begin, out_end, queue); both iterators are made
\* from this array, so the assertion on their array holds
write(aw, nd) == memcpy_h2d(aw, nd)

\* write(const std::vector<T>& data, queue): writes the range begin()..end()
\* of the array from data.data()
write_vector(aw, nd) ==
  IF ~nd /\ ~(aw.num_elements >= aw.data_size)
  THEN {[aw EXCEPT !.pc = "done", !.outcome = "aborted"]}
  ELSE write([aw EXCEPT !.begin = 0, !.end = aw.num_elements], nd)

DeviceArrayWrite ==
  /\ array_write.pc = "call"
  /\ array_write' \in IF array_write.overload = "vector"
                       THEN write_vector(array_write, ndebug)
                       ELSE write(array_write, ndebug)
  /\ UNCHANGED <<cacheVars, binderVars, launchVars, callVars, buffer,
                 constructed, queue_op, threads, requests, calls>>

\* a device array of num_elements elements and a host array of data_size
\* elements; the pointer overload is given positions of the array
InitArray ==
  /\ program_cache = EmptyMap
  /\ kernels = EmptyMap
  /\ num_compiled = [p \in ProgramNames |-> 0]
  /\ last = NoCall
  /\ num_arguments = 0
  /\ set_args = <<>>
  /\ num_resets = 0
  /\ queues = <<"ok">>
  /\ ndebug \in BOOLEAN
  /\ launch = NoLaunch
  /\ kernel_args = UnsetArgs
  /\ kernel_call = NoKernelCall
  /\ buffer = NoBuffer
  /\ constructed = "device"
  /\ queue_op = NoQueueOp
  /\ threads = NoThreads
  /\ requests = NoRequests
  /\ calls = NoCalls
  /\ \E overload \in {"vector", "pointer"}, num_elements \in 0..MaxElements,
        data_size \in 0..MaxElements, status \in ArrayWriteStatus :
       \E out_begin \in 0..num_elements, out_end \in 0..num_elements :
         /\ overload = "vector" => out_begin = 0 /\ out_end = 0
         /\ array_write = [NoArrayWrite EXCEPT
                             !.pc = "call", !.overload = overload,
                             !.num_elements = num_elements,
                             !.data_size = data_size, !.status = status,
                             !.begin = out_begin, !.end = out_end]

NextArray == DeviceArrayWrite

SpecArray == InitArray /\ [][NextArray]_vars

\* C30: write(const std::vector<T>& data) with data.size() <= size() makes
\* the driver read at most data.size() elements from the host vector.
C30_WriteStaysInsideHostVector ==
  (/\ array_write.pc = "done"
   /\ array_write.overload = "vector"
   /\ array_write.data_size <= array_write.num_elements)
    => array_write.host_read <= array_write.data_size

(***************************************************************************)
(* A program that makes two registrations on a fresh device context, with  *)
(* the two-argument overload or with scopes and names that hold colons      *)
(***************************************************************************)
ScopeInputs == {"", "S", "S::T", "S:"}
\* kernel names without a colon, as every OpenCL C function name
PlainNames == {"k1", "k2"}
\* strings with a colon passed as kernel names
ColonNames == {"S::k1", "T::k1", ":k1"}
NameInputs == PlainNames \cup ColonNames

\* the kernel-name lists given to the two-argument overload
GeneratedFrom == {"k1", "k2", "k1k2"}
RequestLists == SeqsUpTo(GeneratedFrom, MaxNames) \ {<<>>}
RequestSources == {"srcA", "srcC"}

\* std::string program_name; for(str : kernel_names) program_name += str;
RECURSIVE generated_program_name(_)
generated_program_name(kernel_names) ==
  IF kernel_names = <<>> THEN ""
  ELSE Head(kernel_names) \o generated_program_name(Tail(kernel_names))

RequestProgramNames ==
  ProgramNames \cup {generated_program_name(l) : l \in RequestLists}

GeneratedRequests ==
  {[overload |-> "generated", source |-> src, kernel_names |-> l,
    program_name |-> "", scope |-> ""] :
     src \in RequestSources, l \in RequestLists}

ScopedRequests ==
  {[overload |-> "scoped", source |-> "srcA", kernel_names |-> <<n>>,
    program_name |-> "P1", scope |-> sc] :
     sc \in ScopeInputs, n \in NameInputs}

\* the next request is made with the given program name; the record of the
\* call and the names that were new to the kernel map are kept
MakeRequest(r, program_name) ==
  \E reg \in {register_source_code_on(program_cache, kernels, num_compiled,
                                       r.source, r.kernel_names, program_name,
                                       r.scope)} :
    /\ program_cache' = reg.program_cache
    /\ kernels' = reg.kernels
    /\ num_compiled' = reg.num_compiled
    /\ last' = reg.last
    /\ requests' = [requests EXCEPT
                      !.done = @ + 1,
                      !.results = Append(@, [call |-> reg.last,
                                             new |-> new_kernels(kernels,
                                                                 r.kernel_names,
                                                                 r.scope)])]
    /\ UNCHANGED <<binderVars, launchVars, callVars, buffer, constructed,
                   queue_op, threads, array_write, calls>>

\* register_source_code(cl_source, kernel_names)
RegisterGenerated ==
  /\ requests.done < Len(requests.list)
  /\ LET r == requests.list[requests.done + 1]
     IN /\ r.overload = "generated"
        /\ MakeRequest(r, generated_program_name(r.kernel_names))

\* register_source_code(source_code, kernel_names, program_name, scope)
RegisterScoped ==
  /\ requests.done < Len(requests.list)
  /\ LET r == requests.list[requests.done + 1]
     IN /\ r.overload = "scoped"
        /\ MakeRequest(r, r.program_name)

InitRequests ==
  /\ program_cache = EmptyMap
  /\ kernels = EmptyMap
  /\ num_compiled = [p \in RequestProgramNames |-> 0]
  /\ last = NoCall
  /\ num_arguments = 0
  /\ set_args = <<>>
  /\ num_resets = 0
  /\ queues = <<"ok">>
  /\ ndebug = FALSE
  /\ launch = NoLaunch
  /\ kernel_args = UnsetArgs
  /\ kernel_call = NoKernelCall
  /\ buffer = NoBuffer
  /\ constructed = "device"
  /\ queue_op = NoQueueOp
  /\ threads = NoThreads
  /\ array_write = NoArrayWrite
  /\ calls = NoCalls
  /\ \E kind \in {GeneratedRequests, ScopedRequests} :
       \E r1 \in kind, r2 \in kind :
         requests = [NoRequests EXCEPT !.list = <<r1, r2>>]

NextRequests == RegisterGenerated \/ RegisterScoped

SpecRequests == InitRequests /\ [][NextRequests]_vars

\* both requests of the program have been made with this overload
BothMade(overload) ==
  /\ requests.done = 2
  /\ requests.list[1].overload = overload
  /\ requests.list[2].overload = overload

\* C26 as stated: two different pairs of scope and kernel name, with or
\* without colons in them, have different keys in the kernel map.
C26_KeyIsInjective ==
  (/\ BothMade("scoped")
   /\ <<requests.list[1].scope, requests.list[1].kernel_names[1]>>
        # <<requests.list[2].scope, requests.list[2].kernel_names[1]>>)
    => LoadKey(requests.list[1].scope, requests.list[1].kernel_names[1])
         # LoadKey(requests.list[2].scope, requests.list[2].kernel_names[1])

\* C26: two different pairs of scope and kernel name whose kernel names hold
\* no colon have different keys, whatever the scopes are; both registrations
\* succeed and each key holds the kernel of its own pair.
C26_KeyIsInjectiveForPlainNames ==
  (/\ BothMade("scoped")
   /\ requests.list[1].kernel_names[1] \in PlainNames
   /\ requests.list[2].kernel_names[1] \in PlainNames
   /\ <<requests.list[1].scope, requests.list[1].kernel_names[1]>>
        # <<requests.list[2].scope, requests.list[2].kernel_names[1]>>)
    => LET key1 == LoadKey(requests.list[1].scope, requests.list[1].kernel_names[1])
           key2 == LoadKey(requests.list[2].scope, requests.list[2].kernel_names[1])
       IN /\ key1 # key2
          /\ \A i \in 1..2 : requests.results[i].call.outcome = "ok"
          /\ DOMAIN kernels = {key1, key2}
          /\ kernels[key1].scope = requests.list[1].scope
          /\ kernels[key1].function_name = requests.list[1].kernel_names[1]
          /\ kernels[key2].scope = requests.list[2].scope
          /\ kernels[key2].function_name = requests.list[2].kernel_names[1]

\* k1 was registered under the scope "S::T" and then under the scope "S",
\* and the kernel map holds both
C26_Witness ==
  /\ BothMade("scoped")
  /\ requests.list[1].scope = "S::T" /\ requests.list[1].kernel_names = <<"k1">>
  /\ requests.list[2].scope = "S" /\ requests.list[2].kernel_names = <<"k1">>
  /\ DOMAIN kernels = {"S::T::k1", "S::k1"}

\* C27: two registrations through the two-argument overload with different
\* kernel-name lists and different sources get different program
\* identifiers, and the second one, when it has a new kernel name, compiles
\* its own source and caches it under its identifier.
C27_GeneratedNamesDiffer ==
  (/\ BothMade("generated")
   /\ requests.list[1].kernel_names # requests.list[2].kernel_names
   /\ requests.list[1].source # requests.list[2].source)
    => /\ requests.results[1].call.program_name
            # requests.results[2].call.program_name
       /\ Len(requests.results[2].new) > 0
            => /\ requests.results[2].call.compiled
               /\ program_cache[requests.results[2].call.program_name].source
                    = requests.list[2].source

(***************************************************************************)
(* Two kernel_call objects made for one scoped kernel name of one context: *)
(* get_kernel hands both the same kernel_ptr, so both objects set the      *)
(* arguments of one cl::Kernel (kernel_args); each has its own counter     *)
(***************************************************************************)
CallObjects == {"a", "b"}

\* the argument lists passed to an object: object a passes the value "a",
\* object b the value "b"
ObjectArguments(o) == {l \in ArgumentLists : \A i \in 1..Len(l) : l[i] = o}

\* the values an object has set, after the setArg calls of log
RECURSIVE bound_through(_, _, _)
bound_through(bound, log, i) ==
  IF i > Len(log) THEN bound
  ELSE bound_through(IF log[i].err = "CL_SUCCESS"
                     THEN [bound EXCEPT ![log[i].index + 1] = log[i].value]
                     ELSE bound,
                     log, i + 1)

\* cl_int operator()(Args... arguments) on object o
ObjectInvoke ==
  \E o \in CallObjects : \E arguments \in ObjectArguments(o) :
    LET st == configure_arguments([count |-> counter_after_reset,
                                   args |-> kernel_args, log |-> <<>>],
                                  arguments, 1)
        mine == bound_through(calls[o].bound, st.log, 1)
    IN \E out \in enqueue_kernel(st.args) :
         /\ Submitted(out)
         /\ kernel_args' = st.args
         /\ launch' = out
         /\ calls' = [calls EXCEPT
                        ![o] = [num_arguments |-> counter_after_reset,
                                bound |-> mine],
                        !.last = [object |-> o, op |-> "operator()",
                                  launched |-> st.args, expected |-> mine,
                                  result |-> out.err]]
         /\ UNCHANGED <<cacheVars, binderVars, queues, ndebug, kernel_call,
                        buffer, constructed, queue_op, threads, requests,
                        array_write>>

\* void partial_argument_list(Args... arguments) on object o
ObjectPartialArgumentList ==
  \E o \in CallObjects : \E arguments \in ObjectArguments(o) :
    LET st == configure_arguments([count |-> calls[o].num_arguments,
                                   args |-> kernel_args, log |-> <<>>],
                                  arguments, 1)
    IN /\ calls[o].num_arguments + Len(arguments) <= MaxArgs
       /\ kernel_args' = st.args
       /\ calls' = [calls EXCEPT
                      ![o] = [num_arguments |-> st.count,
                              bound |-> bound_through(calls[o].bound, st.log, 1)],
                      !.last = [object |-> o, op |-> "partial_argument_list",
                                launched |-> <<>>, expected |-> <<>>,
                                result |-> "void"]]
       /\ UNCHANGED <<cacheVars, binderVars, launchVars, kernel_call, buffer,
                      constructed, queue_op, threads, requests, array_write>>

\* void discard_partial_arguments() on object o
ObjectDiscardPartialArguments ==
  \E o \in CallObjects :
    /\ calls' = [calls EXCEPT
                   ![o].num_arguments = counter_after_reset,
                   !.last = [object |-> o, op |-> "discard_partial_arguments",
                             launched |-> <<>>, expected |-> <<>>,
                             result |-> "void"]]
    /\ UNCHANGED <<cacheVars, binderVars, launchVars, callVars, buffer,
                   constructed, queue_op, threads, requests, array_write>>

\* cl_int enqueue_kernel() const on object o
ObjectEnqueueKernel ==
  \E o \in CallObjects : \E out \in enqueue_kernel(kernel_args) :
    /\ Submitted(out)
    /\ launch' = out
    /\ calls' = [calls EXCEPT
                   !.last = [object |-> o, op |-> "enqueue_kernel",
                             launched |-> kernel_args,
                             expected |-> calls[o].bound,
                             result |-> out.err]]
    /\ UNCHANGED <<cacheVars, binderVars, queues, ndebug, callVars, buffer,
                   constructed, queue_op, threads, requests, array_write>>

\* two kernel_call objects just constructed with ranges that pass the
\* assertions, for a kernel nobody has set arguments of
InitTwoCalls ==
  /\ program_cache = EmptyMap
  /\ kernels = EmptyMap
  /\ num_compiled = [p \in ProgramNames |-> 0]
  /\ last = NoCall
  /\ num_arguments = 0
  /\ set_args = <<>>
  /\ num_resets = 0
  /\ queues = <<"ok">>
  /\ ndebug = FALSE
  /\ launch = [NoLaunch EXCEPT !.minimum = <<16>>, !.local = <<16>>]
  /\ OthersIdle

NextTwoCalls ==
  \/ ObjectInvoke
  \/ ObjectPartialArgumentList
  \/ ObjectDiscardPartialArguments
  \/ ObjectEnqueueKernel

SpecTwoCalls == InitTwoCalls /\ [][NextTwoCalls]_vars

\* C24: a launch made through one of two kernel_call objects of the same
\* kernel runs with exactly the argument values that were bound through the
\* launching object.
C24_ArgumentsArePrivate ==
  (/\ calls.last.op \in {"operator()", "enqueue_kernel"}
   /\ calls.last.result = "CL_SUCCESS")
    => calls.last.launched = calls.last.expected

====
